---------------------------- MODULE Spec2Model ----------------------------
(***************************************************************************)
(* A model of scripts/generate_ics.py: the iCalendar text encoder          *)
(* (escape_text), the octet-aware line folder (fold_line, fold_content),   *)
(* the event builder (build_vevent) and the document builder               *)
(* (generate_ics).                                                         *)
(*                                                                         *)
(* A Python str is a sequence of characters; a character is a one-letter   *)
(* string, or a token "U+XXXX" for a character outside ASCII.  A bytes     *)
(* object is a sequence of integers 0..255.  Four specifications share the *)
(* variables: SpecFold runs fold_line, SpecEscape runs escape_text,        *)
(* SpecEvent runs build_vevent and Spec runs generate_ics.                 *)
(***************************************************************************)
EXTENDS Integers, Sequences, FiniteSets, TLC

VARIABLES
    line,       \* fold_line: the logical line passed in
    folded,     \* fold_line: the value returned (Pending before the call)
    text,       \* escape_text: the text passed in
    escaped,    \* escape_text: the value returned (Pending before the call)
    event,      \* build_vevent: the event dict passed in
    defaults,   \* build_vevent / generate_ics: the defaults dict
    vevent,     \* build_vevent: its outcome (lines built, or the exception)
    data,       \* generate_ics: the root dict passed in
    pc,         \* generate_ics: position in the function body
    idx,        \* generate_ics: number of events consumed by the for loop
    lines,      \* generate_ics: the local list lines
    result      \* generate_ics: its outcome (text returned, or the exception)

vars == <<line, folded, text, escaped, event, defaults, vevent,
          data, pc, idx, lines, result>>

-----------------------------------------------------------------------------
(* Characters and strings *)

CR == "\r"
LF == "\n"
SP == " "
BACKSLASH == "\\"

\* The printable ASCII characters, code points 32..126 in order ("GRAVE" is
\* the grave accent, code point 96).
Ascii == <<" ","!","\"","#","$","%","&","'","(",")","*","+",",","-",".","/",
           "0","1","2","3","4","5","6","7","8","9",":",";","<","=",">","?",
           "@","A","B","C","D","E","F","G","H","I","J","K","L","M","N","O",
           "P","Q","R","S","T","U","V","W","X","Y","Z","[","\\","]","^","_",
           "GRAVE","a","b","c","d","e","f","g","h","i","j","k","l","m","n","o",
           "p","q","r","s","t","u","v","w","x","y","z","{","|","}","~">>

\* Characters outside ASCII: e-acute (2 bytes), the euro sign (3 bytes),
\* an emoji (4 bytes).
NonAscii == {"U+00E9", "U+20AC", "U+1F600"}

Chars == {Ascii[i] : i \in DOMAIN Ascii} \cup {CR, LF} \cup NonAscii

\* ord(c)
CodePoint == [c \in Chars |->
    CASE c = CR -> 13
      [] c = LF -> 10
      [] c = "U+00E9" -> 233
      [] c = "U+20AC" -> 8364
      [] c = "U+1F600" -> 128512
      [] OTHER -> 31 + (CHOOSE i \in DOMAIN Ascii : Ascii[i] = c)]

CodePoints == {CodePoint[c] : c \in Chars}

\* chr(cp), for the code points of Chars
CharOf == [cp \in CodePoints |-> CHOOSE c \in Chars : CodePoint[c] = cp]

IsCodePoint(cp) == cp \in CodePoints

\* The value of a variable whose function has not been called yet.
Pending == <<"<pending>">>

\* The outcome of a call: exc is "none" and out the value built, or exc names
\* the exception raised and msg its message.  NotCalled stands before the call.
NotCalled == [exc |-> "pending", msg |-> "", out |-> <<>>]
Return(out) == [exc |-> "none", msg |-> "", out |-> out]
Raise(exc, msg) == [exc |-> exc, msg |-> msg, out |-> <<>>]

\* s1 + s2 + ... for the sequence of strings f[lo..hi], by halving.
RECURSIVE Concat(_, _, _)
Concat(f, lo, hi) ==
    IF lo > hi THEN <<>>
    ELSE IF lo = hi THEN f[lo]
    ELSE LET mid == (lo + hi) \div 2
         IN  Concat(f, lo, mid) \o Concat(f, mid + 1, hi)

Flatten(f) == Concat(f, 1, Len(f))

\* sep.join(parts)
Join(sep, parts) ==
    Flatten([i \in 1..Len(parts) |-> IF i = 1 THEN parts[i] ELSE sep \o parts[i]])

\* s[k:k+len(pat)] == pat
MatchAt(s, k, pat) ==
    /\ k + Len(pat) - 1 <= Len(s)
    /\ \A j \in 1..Len(pat) : s[k + j - 1] = pat[j]

\* s.split(sep): the starts of the non-overlapping occurrences of sep,
\* leftmost first, then the pieces between them.
RECURSIVE SplitStarts(_, _, _, _)
SplitStarts(s, sep, k, acc) ==
    LET later == {j \in k..Len(s) : MatchAt(s, j, sep)}
    IN  IF later = {} THEN acc
        ELSE LET j == CHOOSE m \in later : \A n \in later : m <= n
             IN  SplitStarts(s, sep, j + Len(sep), Append(acc, j))

Split(s, sep) ==
    LET starts == SplitStarts(s, sep, 1, <<>>)
        n == Len(starts)
    IN  [i \in 1..(n + 1) |->
            SubSeq(s,
                   IF i = 1 THEN 1 ELSE starts[i - 1] + Len(sep),
                   IF i = n + 1 THEN Len(s) ELSE starts[i] - 1)]

\* s.replace(old, new): every non-overlapping occurrence of old, leftmost
\* first, which is new.join(s.split(old)).
Replace(s, old, new) ==
    IF \E k \in 1..Len(s) : MatchAt(s, k, old)
    THEN Join(new, Split(s, old))
    ELSE s

Contains(s, pat) == \E k \in 1..Len(s) : MatchAt(s, k, pat)

StartsWith(s, pat) == MatchAt(s, 1, pat)

-----------------------------------------------------------------------------
(* UTF-8 *)

\* char.encode("utf-8")
EncodeCodePoint(cp) ==
    IF cp < 128 THEN <<cp>>
    ELSE IF cp < 2048 THEN <<192 + (cp \div 64), 128 + (cp % 64)>>
    ELSE IF cp < 65536
         THEN <<224 + (cp \div 4096), 128 + ((cp \div 64) % 64), 128 + (cp % 64)>>
    ELSE <<240 + (cp \div 262144), 128 + ((cp \div 4096) % 64),
           128 + ((cp \div 64) % 64), 128 + (cp % 64)>>

Utf8 == [c \in Chars |-> EncodeCodePoint(CodePoint[c])]

\* s.encode("utf-8")
Encode(s) == Flatten([i \in 1..Len(s) |-> Utf8[s[i]]])

IsContinuation(b) == b >= 128 /\ b < 192

\* Number of bytes the lead byte b announces; 0 when b cannot start a character.
SeqLen(b) ==
    IF b < 128 THEN 1
    ELSE IF b >= 192 /\ b < 224 THEN 2
    ELSE IF b >= 224 /\ b < 240 THEN 3
    ELSE IF b >= 240 /\ b < 248 THEN 4
    ELSE 0

\* The code point of the n-byte sequence starting at bs[k].
DecodeAt(bs, k, n) ==
    IF n = 1 THEN bs[k]
    ELSE IF n = 2 THEN (bs[k] - 192) * 64 + (bs[k + 1] - 128)
    ELSE IF n = 3
         THEN (bs[k] - 224) * 4096 + (bs[k + 1] - 128) * 64 + (bs[k + 2] - 128)
    ELSE (bs[k] - 240) * 262144 + (bs[k + 1] - 128) * 4096
         + (bs[k + 2] - 128) * 64 + (bs[k + 3] - 128)

\* What bytes.decode raises on a malformed sequence.
UnicodeDecodeError == <<"<UnicodeDecodeError>">>

\* bs.decode("utf-8"): the string, or UnicodeDecodeError.  The decoder reads a
\* lead byte, then the continuation bytes it announces, and so on: the bytes
\* decode when the first is a lead byte and every lead byte is followed by
\* exactly the continuation bytes it announces.
Decode(bs) ==
    LET leads == SelectSeq([k \in 1..Len(bs) |-> k],
                           LAMBDA k : ~IsContinuation(bs[k]))
        \* the number of bytes from the i-th lead byte up to the next one
        run(i) == (IF i < Len(leads) THEN leads[i + 1] ELSE Len(bs) + 1) - leads[i]
    IN  IF \/ (bs # <<>> /\ IsContinuation(bs[1]))
           \/ \E i \in 1..Len(leads) :
                 \/ SeqLen(bs[leads[i]]) # run(i)
                 \/ ~IsCodePoint(DecodeAt(bs, leads[i], run(i)))
        THEN UnicodeDecodeError
        ELSE [i \in 1..Len(leads) |-> CharOf[DecodeAt(bs, leads[i], run(i))]]

-----------------------------------------------------------------------------
(* fold_line *)

FirstLimit == 75
ContLimit == 74

\* The separator fold_line joins its chunks with.
FoldSep == <<CR, LF, SP>>

\* A faulty FoldLimit that forgets the continuation line's leading space;
\* FoldChunks must tell it from FoldLimit.
FoldLimitNoSpace(res) == FirstLimit

\* limit = 75 if not result else 74
FoldLimit(res) == IF res = <<>> THEN FirstLimit ELSE ContLimit

\* for char in line: char_bytes = char.encode("utf-8"): the byte strings
\* the loop visits, one per character.
CharBytes(ln) == [i \in 1..Len(ln) |-> Utf8[ln[i]]]

\* The last index j >= k for which the byte strings pieces[k..j] fit in limit
\* bytes together: where the test len(current) + len(char_bytes) > limit first
\* fires is j + 1.  The piece at k starts the chunk and is always taken.
ChunkEnd(pieces, k, limit) ==
    LET fits == {j \in k..Len(pieces) :
                    j - k < limit /\ Len(Concat(pieces, k, j)) <= limit}
    IN  IF fits = {} THEN k
        ELSE CHOOSE j \in fits : \A i \in fits : i <= j

\* A faulty FoldLoop that restarts the chunk empty on overflow, losing the
\* character that did not fit; FoldRoundTrip must tell it from FoldLoop.
RECURSIVE FoldLoopDropsChar(_, _, _)
FoldLoopDropsChar(pieces, k, res) ==
    IF k > Len(pieces) THEN res
    ELSE LET j == ChunkEnd(pieces, k, FoldLimit(res))
             current == Concat(pieces, k, j)
         IN  FoldLoopDropsChar(pieces, j + 2, Append(res, Decode(current)))

\* The for loop of fold_line with the final append, one chunk at a time: the
\* chunk that starts at the k-th character takes characters while they fit
\* (current += char_bytes), is appended decoded when the next one does not fit
\* or the line ends, and the next chunk starts at that character
\* (current = char_bytes).  The list result it leaves.
RECURSIVE FoldLoop(_, _, _)
FoldLoop(pieces, k, res) ==
    IF k > Len(pieces) THEN res
    ELSE LET j == ChunkEnd(pieces, k, FoldLimit(res))
             current == Concat(pieces, k, j)
         IN  FoldLoop(pieces, j + 1, Append(res, Decode(current)))

\* fold_line(line): the folded string, or UnicodeDecodeError when a decode raises.
fold_line(ln) ==
    IF Len(Encode(ln)) <= FirstLimit THEN ln
    ELSE LET res == FoldLoop(CharBytes(ln), 1, <<>>)
         IN  IF \E i \in 1..Len(res) : res[i] = UnicodeDecodeError
             THEN UnicodeDecodeError
             ELSE Join(FoldSep, res)

\* fold_content(content)
fold_content(content) ==
    LET lns == Split(content, <<CR, LF>>)
        outs == [i \in 1..Len(lns) |-> fold_line(lns[i])]
    IN  IF \E i \in 1..Len(outs) : outs[i] = UnicodeDecodeError
        THEN UnicodeDecodeError
        ELSE Join(<<CR, LF>>, outs)

-----------------------------------------------------------------------------
(* SpecFold: fold_line on a bounded family of logical lines *)

MaxMotif == 2
MaxChars == 80

\* One ordinary letter, the three characters of the fold separator, and a
\* character of each encoded width 2, 3 and 4.
FoldAlphabet == {"a", SP, CR, LF, "U+00E9", "U+20AC", "U+1F600"}

Motifs == UNION {[1..n -> FoldAlphabet] : n \in 1..MaxMotif}

\* The motif m repeated cyclically up to n characters.
Cycle(m, n) == [i \in 1..n |-> m[((i - 1) % Len(m)) + 1]]

InitFold ==
    \* a logical line never holds CRLF: fold_content splits its input on it
    /\ \E m \in Motifs, n \in 0..MaxChars :
          /\ line = Cycle(m, n)
          /\ ~Contains(line, <<CR, LF>>)
    /\ folded = Pending
    /\ text = <<>> /\ escaped = Pending
    /\ event = <<>> /\ defaults = <<>> /\ vevent = NotCalled
    /\ data = <<>> /\ pc = "idle" /\ idx = 0 /\ lines = <<>> /\ result = NotCalled

FoldLine ==
    /\ folded = Pending
    /\ folded' = fold_line(line)
    /\ UNCHANGED <<line, text, escaped, event, defaults, vevent,
                   data, pc, idx, lines, result>>

NextFold == FoldLine

SpecFold == InitFold /\ [][NextFold]_vars

\* The physical lines a reader sees in the folded output.
PhysicalLines == Split(folded, <<CR, LF>>)

\* What a reader does to unfold: drop every CRLF followed by one space.
Unfold(s) == Replace(s, FoldSep, <<>>)

HasMultiByte(s) == \E i \in 1..Len(s) : Len(Utf8[s[i]]) > 1

\* C1: unfolding the output of fold_line (removing every CRLF followed by a
\* single space) gives back the logical line exactly.
FoldRoundTrip ==
    folded # Pending => Unfold(folded) = line

\* C1 witness: a line with multi-byte characters folded into three or more
\* physical lines.
FoldRoundTripWitness ==
    /\ folded # Pending
    /\ folded # UnicodeDecodeError
    /\ HasMultiByte(line)
    /\ Len(PhysicalLines) >= 3
    /\ Unfold(folded) = line

\* The chunk carried by the i-th of the physical lines ps.
Chunk(ps, i) == IF i = 1 THEN ps[1] ELSE SubSeq(ps[i], 2, Len(ps[i]))

\* Every physical line is at most 75 bytes, its leading space counted, and
\* no chunk boundary falls inside a character's encoding: every chunk decodes,
\* and the chunks' bytes are the line's bytes.
FoldWidthsOk(ps) ==
    /\ folded # UnicodeDecodeError
    /\ \A i \in 1..Len(ps) :
          /\ Len(Encode(ps[i])) <= FirstLimit
          /\ i > 1 => /\ Len(ps[i]) >= 1
                      /\ ps[i][1] = SP
                      /\ Len(Encode(Chunk(ps, i))) <= ContLimit
    /\ Flatten([i \in 1..Len(ps) |-> Encode(Chunk(ps, i))]) = Encode(line)

\* C2 as stated: the widths hold and every chunk is non-empty, for every
\* logical line.
FoldChunksAsClaimed ==
    folded # Pending =>
        LET ps == PhysicalLines
        IN  /\ FoldWidthsOk(ps)
            /\ \A i \in 1..Len(ps) : Chunk(ps, i) # <<>>

\* C2 amended: the widths hold for every logical line, and every chunk is
\* non-empty unless the logical line itself is empty (it is returned as it is).
FoldChunks ==
    folded # Pending =>
        LET ps == PhysicalLines
        IN  /\ FoldWidthsOk(ps)
            /\ line # <<>> => \A i \in 1..Len(ps) : Chunk(ps, i) # <<>>

\* C2 witness: a multi-byte character that did not fit was pushed whole into
\* the next chunk, leaving the first physical line short of 75 bytes, and a
\* later chunk was filled too.
FoldChunksWitness ==
    /\ folded # Pending
    /\ folded # UnicodeDecodeError
    /\ LET ps == PhysicalLines
       IN  /\ Len(ps) >= 3
           /\ Len(Encode(ps[1])) < FirstLimit
           /\ Len(Encode(Chunk(ps, 2))) < ContLimit

-----------------------------------------------------------------------------
(* escape_text *)

\* A faulty escape_text that escapes the backslash last, so that the
\* backslashes added for ; , and newline are doubled; EscapeRoundTrip must tell
\* it from escape_text.
EscapeBackslashLast(t) ==
    LET t1 == Replace(t, <<";">>, <<BACKSLASH, ";">>)
        t2 == Replace(t1, <<",">>, <<BACKSLASH, ",">>)
        t3 == Replace(t2, <<LF>>, <<BACKSLASH, "n">>)
    IN  Replace(t3, <<BACKSLASH>>, <<BACKSLASH, BACKSLASH>>)

\* escape_text(text): four replacements, backslash first.
escape_text(t) ==
    LET t1 == Replace(t, <<BACKSLASH>>, <<BACKSLASH, BACKSLASH>>)
        t2 == Replace(t1, <<";">>, <<BACKSLASH, ";">>)
        t3 == Replace(t2, <<",">>, <<BACKSLASH, ",">>)
    IN  Replace(t3, <<LF>>, <<BACKSLASH, "n">>)

-----------------------------------------------------------------------------
(* SpecEscape: escape_text on every short text over the reserved characters *)

MaxText == 4

\* The four characters escape_text rewrites, the letter n (which the escape
\* of a newline ends with) and another letter.
EscapeAlphabet == {BACKSLASH, ";", ",", LF, "n", "a"}

InitEscape ==
    /\ text \in UNION {[1..n -> EscapeAlphabet] : n \in 0..MaxText}
    /\ escaped = Pending
    /\ line = <<>> /\ folded = Pending
    /\ event = <<>> /\ defaults = <<>> /\ vevent = NotCalled
    /\ data = <<>> /\ pc = "idle" /\ idx = 0 /\ lines = <<>> /\ result = NotCalled

EscapeText ==
    /\ escaped = Pending
    /\ escaped' = escape_text(text)
    /\ UNCHANGED <<line, folded, text, event, defaults, vevent,
                   data, pc, idx, lines, result>>

NextEscape == EscapeText

SpecEscape == InitEscape /\ [][NextEscape]_vars

\* The reverse substitutions in reverse order, each a replacement over the
\* whole string.
Unescape(s) ==
    LET s1 == Replace(s, <<BACKSLASH, "n">>, <<LF>>)
        s2 == Replace(s1, <<BACKSLASH, ",">>, <<",">>)
        s3 == Replace(s2, <<BACKSLASH, ";">>, <<";">>)
    IN  Replace(s3, <<BACKSLASH, BACKSLASH>>, <<BACKSLASH>>)

\* C3 as stated: the reverse substitutions in reverse order give back every
\* text, the letter n included.
EscapeRoundTripAsClaimed ==
    escaped # Pending => Unescape(escaped) = text

\* C3 amended: the reverse substitutions in reverse order give back every text
\* in which no backslash is immediately followed by the letter n.
EscapeRoundTrip ==
    (escaped # Pending /\ ~Contains(text, <<BACKSLASH, "n">>))
        => Unescape(escaped) = text

\* C3 witness: a text mixing a backslash, a newline, the letter n and a
\* semicolon or comma has been escaped and comes back.
EscapeRoundTripWitness ==
    /\ escaped # Pending
    /\ ~Contains(text, <<BACKSLASH, "n">>)
    /\ \E i, j, k, l \in 1..Len(text) :
          /\ text[i] = BACKSLASH /\ text[j] = LF /\ text[k] = "n"
          /\ text[l] \in {";", ","}
    /\ Unescape(escaped) = text

-----------------------------------------------------------------------------
(* Optional values, numbers and patterns *)

\* A dict entry that may be missing: <<>> when the key is absent (dict.get
\* gives None), <<v>> when it is set to v.
None == <<>>
Some(v) == <<v>>

\* dict.get(key, default)
Get(opt, default) == IF opt = None THEN default ELSE opt[1]

\* Truth value of a str or list entry: set and not empty.
Truthy(opt) == opt # None /\ opt[1] # <<>>

Digits == {"0", "1", "2", "3", "4", "5", "6", "7", "8", "9"}

DigitChar(d) == Ascii[17 + d]

DigitVal(c) == CodePoint[c] - 48

\* str(n) for an int
RECURSIVE NatStr(_)
NatStr(n) == IF n < 10 THEN <<DigitChar(n)>>
             ELSE Append(NatStr(n \div 10), DigitChar(n % 10))

Str(n) == IF n < 0 THEN <<"-">> \o NatStr(0 - n) ELSE NatStr(n)

\* n printed in at least w digits, zero-padded
RECURSIVE Padded(_, _)
Padded(n, w) == IF w <= 1 THEN NatStr(n)
                ELSE IF Len(NatStr(n)) >= w THEN NatStr(n)
                ELSE <<"0">> \o Padded(n, w - 1)

\* int(s[i..j]) for a run of digits
RECURSIVE Num(_, _, _)
Num(s, i, j) == IF j < i THEN 0 ELSE 10 * Num(s, i, j - 1) + DigitVal(s[j])

\* re.match(r"^\d{4}-\d{2}-\d{2}$", s); $ also matches before a final newline.
MatchesDate(s) ==
    /\ Len(s) = 10 \/ (Len(s) = 11 /\ s[11] = LF)
    /\ \A i \in {1, 2, 3, 4, 6, 7, 9, 10} : s[i] \in Digits
    /\ s[5] = "-" /\ s[8] = "-"

\* re.match(r"^\d{2}:\d{2}$", s)
MatchesTime(s) ==
    /\ Len(s) = 5 \/ (Len(s) = 6 /\ s[6] = LF)
    /\ \A i \in {1, 2, 4, 5} : s[i] \in Digits
    /\ s[3] = ":"

-----------------------------------------------------------------------------
(* slugify, generate_uid *)

SlugMax == 40

Lower(c) == IF CodePoint[c] >= 65 /\ CodePoint[c] <= 90
            THEN CharOf[CodePoint[c] + 32] ELSE c

\* \s
IsSpace(c) == c \in {SP, CR, LF}

\* \w: letters, digits and the underscore; of NonAscii only the letter e-acute
IsWord(c) ==
    \/ c \in Digits \/ c = "_" \/ c = "U+00E9"
    \/ (CodePoint[c] >= 65 /\ CodePoint[c] <= 90)
    \/ (CodePoint[c] >= 97 /\ CodePoint[c] <= 122)

\* str.strip()
Strip(s) ==
    LET inner == {i \in 1..Len(s) : ~IsSpace(s[i])}
    IN  IF inner = {} THEN <<>>
        ELSE SubSeq(s, CHOOSE i \in inner : \A j \in inner : i <= j,
                       CHOOSE i \in inner : \A j \in inner : i >= j)

SlugKeeps(c) == IsWord(c) \/ IsSpace(c) \/ c = "-"

SlugBreaks(c) == IsSpace(c) \/ c = "_"

\* re.sub(r"[\s_]+", "-", s): one hyphen for each maximal run
Hyphenate(s) ==
    Flatten([i \in 1..Len(s) |->
        IF ~SlugBreaks(s[i]) THEN <<s[i]>>
        ELSE IF i > 1 /\ SlugBreaks(s[i - 1]) THEN <<>>
        ELSE <<"-">>])

\* slugify(text)
slugify(t) ==
    LET lowered == Strip([i \in 1..Len(t) |-> Lower(t[i])])
        kept == SelectSeq(lowered, SlugKeeps)
        slug == Hyphenate(kept)
    IN  SubSeq(slug, 1, IF Len(slug) < SlugMax THEN Len(slug) ELSE SlugMax)

\* generate_uid(summary, date), short_uuid being uuid.uuid4().hex[:8]
generate_uid(summary, date, short_uuid) ==
    slugify(summary) \o <<"-">> \o date \o <<"-">> \o short_uuid \o <<"@", "c", "l", "a", "u", "d", "e">>

-----------------------------------------------------------------------------
(* format_date, format_datetime, and the datetime calls of build_vevent *)

\* format_date(date_str)
format_date(date_str) == Replace(date_str, <<"-">>, <<>>)

\* format_datetime(date_str, time_str)
format_datetime(date_str, time_str) ==
    Replace(date_str, <<"-">>, <<>>) \o <<"T">> \o Replace(time_str, <<":">>, <<>>)
        \o <<"0", "0">>

IsLeap(y) == (y % 4 = 0 /\ y % 100 # 0) \/ y % 400 = 0

DaysIn(y, m) ==
    IF m = 2 THEN (IF IsLeap(y) THEN 29 ELSE 28)
    ELSE IF m \in {4, 6, 9, 11} THEN 30 ELSE 31

\* datetime.MAXYEAR
MaxYear == 9999

\* datetime.strptime(date, "%Y-%m-%d") succeeds; otherwise it raises ValueError.
\* The date has passed MatchesDate.
StrptimeOk(date) ==
    LET y == Num(date, 1, 4)
        m == Num(date, 6, 7)
        d == Num(date, 9, 10)
    IN  /\ Len(date) = 10
        /\ y >= 1
        /\ m >= 1 /\ m <= 12
        /\ d >= 1 /\ d <= DaysIn(y, m)

\* dt_date + timedelta(days=1), as <<year, month, day>>; it raises
\* OverflowError past MaxYear.
PlusOneDay(y, m, d) ==
    IF d < DaysIn(y, m) THEN <<y, m, d + 1>>
    ELSE IF m < 12 THEN <<y, m + 1, 1>>
    ELSE <<y + 1, 1, 1>>

\* strftime("%Y%m%d"). The C library prints %Y; some pad a year below 1000 to
\* four digits (pad_year) and some do not.
Strftime(ymd, pad_year) ==
    (IF pad_year THEN Padded(ymd[1], 4) ELSE NatStr(ymd[1]))
        \o Padded(ymd[2], 2) \o Padded(ymd[3], 2)

-----------------------------------------------------------------------------
(* build_vevent *)

DefaultReminder == 0
DefaultDuration == 60

StatusValues == {<<"T", "E", "N", "T", "A", "T", "I", "V", "E">>, <<"C", "O", "N", "F", "I", "R", "M", "E", "D">>, <<"C", "A", "N", "C", "E", "L", "L", "E", "D">>}
TranspValues == {<<"O", "P", "A", "Q", "U", "E">>, <<"T", "R", "A", "N", "S", "P", "A", "R", "E", "N", "T">>}

\* dur_parts of lines 107-114: PT, hours and minutes by divmod(duration, 60)
DurationValue(duration) ==
    LET hours == duration \div 60
        mins == duration % 60
    IN  <<"P", "T">>
        \o (IF hours # 0 THEN Str(hours) \o <<"H">> ELSE <<>>)
        \o (IF mins # 0 THEN Str(mins) \o <<"M">> ELSE <<>>)
        \o (IF hours = 0 /\ mins = 0 THEN <<"0", "M">> ELSE <<>>)

\* trigger_parts of lines 152-159
TriggerValue(reminder) ==
    LET hours == reminder \div 60
        mins == reminder % 60
    IN  <<"-", "P", "T">>
        \o (IF hours # 0 THEN Str(hours) \o <<"H">> ELSE <<>>)
        \o (IF mins # 0 THEN Str(mins) \o <<"M">> ELSE <<>>)
        \o (IF hours = 0 /\ mins = 0 THEN <<"0", "M">> ELSE <<>>)

\* Lines 92-115: the outcome of the all-day / timed branch, out being the
\* lines it appends.
TemporalLines(ev, tz, duration, pad_year) ==
    LET date == ev.date[1]
    IN  IF ev.time = None
        THEN IF ~StrptimeOk(date)
             THEN Raise("ValueError", "strptime")
             ELSE LET next == PlusOneDay(Num(date, 1, 4), Num(date, 6, 7),
                                         Num(date, 9, 10))
                  IN  IF next[1] > MaxYear
                      THEN Raise("OverflowError", "date value out of range")
                      ELSE Return(<<<<"D", "T", "S", "T", "A", "R", "T", ";", "V", "A", "L", "U", "E", "=", "D", "A", "T", "E", ":">> \o format_date(date),
                                    <<"D", "T", "E", "N", "D", ";", "V", "A", "L", "U", "E", "=", "D", "A", "T", "E", ":">> \o Strftime(next, pad_year)>>)
        ELSE IF ~Truthy(tz)
             THEN Raise("ValueError", "has a time but no timezone")
             ELSE Return(
                    <<<<"D", "T", "S", "T", "A", "R", "T", ";", "T", "Z", "I", "D", "=">> \o tz[1] \o <<":">>
                        \o format_datetime(date, ev.time[1])>>
                    \o (IF duration # 0
                        THEN <<<<"D", "U", "R", "A", "T", "I", "O", "N", ":">> \o DurationValue(duration)>>
                        ELSE <<>>))

\* A faulty OptionalLines that emits URL before LOCATION; PropertyOrder must
\* tell it from OptionalLines.
OptionalLinesUrlFirst(ev) ==
    (IF Truthy(ev.description)
     THEN <<<<"D", "E", "S", "C", "R", "I", "P", "T", "I", "O", "N", ":">> \o escape_text(ev.description[1])>> ELSE <<>>)
    \o (IF Truthy(ev.url) THEN <<<<"U", "R", "L", ":">> \o ev.url[1]>> ELSE <<>>)
    \o (IF Truthy(ev.location)
        THEN <<<<"L", "O", "C", "A", "T", "I", "O", "N", ":">> \o escape_text(ev.location[1])>> ELSE <<>>)
    \o (IF Truthy(ev.categories)
        THEN <<<<"C", "A", "T", "E", "G", "O", "R", "I", "E", "S", ":">> \o Join(<<",">>, ev.categories[1])>> ELSE <<>>)
    \o (IF Truthy(ev.status) THEN <<<<"S", "T", "A", "T", "U", "S", ":">> \o ev.status[1]>> ELSE <<>>)
    \o (IF Truthy(ev.transp) THEN <<<<"T", "R", "A", "N", "S", "P", ":">> \o ev.transp[1]>> ELSE <<>>)
    \o (IF Truthy(ev.rrule) THEN <<<<"R", "R", "U", "L", "E", ":">> \o ev.rrule[1]>> ELSE <<>>)

\* Lines 119-149: the lines appended for the optional fields, in order.
OptionalLines(ev) ==
    (IF Truthy(ev.description)
     THEN <<<<"D", "E", "S", "C", "R", "I", "P", "T", "I", "O", "N", ":">> \o escape_text(ev.description[1])>> ELSE <<>>)
    \o (IF Truthy(ev.location)
        THEN <<<<"L", "O", "C", "A", "T", "I", "O", "N", ":">> \o escape_text(ev.location[1])>> ELSE <<>>)
    \o (IF Truthy(ev.url) THEN <<<<"U", "R", "L", ":">> \o ev.url[1]>> ELSE <<>>)
    \o (IF Truthy(ev.categories)
        THEN <<<<"C", "A", "T", "E", "G", "O", "R", "I", "E", "S", ":">> \o Join(<<",">>, ev.categories[1])>> ELSE <<>>)
    \o (IF Truthy(ev.status) THEN <<<<"S", "T", "A", "T", "U", "S", ":">> \o ev.status[1]>> ELSE <<>>)
    \o (IF Truthy(ev.transp) THEN <<<<"T", "R", "A", "N", "S", "P", ":">> \o ev.transp[1]>> ELSE <<>>)
    \o (IF Truthy(ev.rrule) THEN <<<<"R", "R", "U", "L", "E", ":">> \o ev.rrule[1]>> ELSE <<>>)

\* A faulty AlarmLines that tests the reminder for >= 0, so that a reminder
\* of 0 still gets an alarm; AlarmEmission must tell it from AlarmLines.
AlarmLinesAtZero(reminder) ==
    IF reminder >= 0
    THEN <<<<"B", "E", "G", "I", "N", ":", "V", "A", "L", "A", "R", "M">>,
           <<"T", "R", "I", "G", "G", "E", "R", ":">> \o TriggerValue(reminder),
           <<"A", "C", "T", "I", "O", "N", ":", "D", "I", "S", "P", "L", "A", "Y">>,
           <<"D", "E", "S", "C", "R", "I", "P", "T", "I", "O", "N", ":", "R", "e", "m", "i", "n", "d", "e", "r">>,
           <<"E", "N", "D", ":", "V", "A", "L", "A", "R", "M">>>>
    ELSE <<>>

\* Lines 151-166: the alarm block
AlarmLines(reminder) ==
    IF reminder # 0 /\ reminder > 0
    THEN <<<<"B", "E", "G", "I", "N", ":", "V", "A", "L", "A", "R", "M">>,
           <<"T", "R", "I", "G", "G", "E", "R", ":">> \o TriggerValue(reminder),
           <<"A", "C", "T", "I", "O", "N", ":", "D", "I", "S", "P", "L", "A", "Y">>,
           <<"D", "E", "S", "C", "R", "I", "P", "T", "I", "O", "N", ":", "R", "e", "m", "i", "n", "d", "e", "r">>,
           <<"E", "N", "D", ":", "V", "A", "L", "A", "R", "M">>>>
    ELSE <<>>

\* build_vevent(event, defaults).  short_uuid is uuid.uuid4().hex[:8], dtstamp
\* the formatted datetime.now(timezone.utc), pad_year the C library's way of
\* printing %Y.  out is the list lines, whose CRLF-join is the value returned.
build_vevent(ev, dflt, short_uuid, dtstamp, pad_year) ==
    IF ~Truthy(ev.date) \/ ~Truthy(ev.summary)
    THEN Raise("ValueError", "Event missing required fields (date, summary)")
    ELSE IF ~MatchesDate(ev.date[1])
    THEN Raise("ValueError", "Invalid date format")
    ELSE IF Truthy(ev.time) /\ ~MatchesTime(ev.time[1])
    THEN Raise("ValueError", "Invalid time format")
    ELSE
    LET tz == IF ev.timezone # None THEN ev.timezone ELSE dflt.timezone
        reminder == Get(ev.reminder_minutes, dflt.reminder_minutes)
        duration == Get(ev.duration_minutes, dflt.duration_minutes)
        uid == generate_uid(ev.summary[1], ev.date[1], short_uuid)
        temporal == TemporalLines(ev, tz, duration, pad_year)
    IN  IF temporal.exc # "none" THEN temporal
        ELSE IF Truthy(ev.status) /\ ev.status[1] \notin StatusValues
        THEN Raise("ValueError", "Invalid status")
        ELSE IF Truthy(ev.transp) /\ ev.transp[1] \notin TranspValues
        THEN Raise("ValueError", "Invalid transp")
        ELSE Return(<<<<"B", "E", "G", "I", "N", ":", "V", "E", "V", "E", "N", "T">>, <<"U", "I", "D", ":">> \o uid, <<"D", "T", "S", "T", "A", "M", "P", ":">> \o dtstamp>>
                    \o temporal.out
                    \o <<<<"S", "U", "M", "M", "A", "R", "Y", ":">> \o escape_text(ev.summary[1])>>
                    \o OptionalLines(ev)
                    \o AlarmLines(reminder)
                    \o <<<<"E", "N", "D", ":", "V", "E", "V", "E", "N", "T">>>>)

\* Lines 177-181 of generate_ics: the defaults dict
MakeDefaults(d) ==
    [timezone |-> d.timezone,
     reminder_minutes |-> Get(d.reminder_minutes, DefaultReminder),
     duration_minutes |-> Get(d.duration_minutes, DefaultDuration)]

-----------------------------------------------------------------------------
(* SpecEvent: build_vevent on bounded families of event records *)

MaxMinutes == 125

\* An all-day event with only the required fields.
BaseEvent ==
    [date |-> Some(<<"2", "0", "2", "4", "-", "0", "3", "-", "1", "0">>), summary |-> Some(<<"L", "a", "u", "n", "c", "h">>),
     time |-> None, timezone |-> None,
     reminder_minutes |-> None, duration_minutes |-> None,
     description |-> None, location |-> None, url |-> None,
     categories |-> None, status |-> None, transp |-> None, rrule |-> None]

\* A root dict holding the events evs and no defaults of its own.
BaseData(evs) ==
    [events |-> evs, timezone |-> None,
     reminder_minutes |-> None, duration_minutes |-> None]

DateStr(y, m, d) == Padded(y, 4) \o <<"-">> \o Padded(m, 2) \o <<"-">> \o Padded(d, 2)

\* Years: 0, one below 1000, a century that is not a leap year, one that is, a
\* common year, a leap year, and the last year datetime holds.
Years == {0, 800, 1900, 2000, 2023, 2024, 9999}

\* Every day number 0..32 of every month number 0..13 of Years, and some
\* strings that are no date.
DateInputs ==
    {DateStr(y, m, d) : y \in Years, m \in 0..13, d \in 0..32}
    \cup {<<>>, <<"2", "0", "2", "4", "-", "3", "-", "1", "0">>, <<"2", "0", "2", "4", "0", "3", "1", "0">>, <<"2", "0", "2", "4", "/", "0", "3", "/", "1", "0">>, <<"2", "4", "-", "0", "3", "-", "2", "0", "1", "0">>,
          <<"2", "0", "2", "4", "-", "0", "3", "-", "1", "0">> \o <<LF>>, <<"2", "0", "2", "4", "-", "0", "3", "-", "1", "0">> \o <<SP>>}

TimeInputs ==
    {None, Some(<<>>), Some(<<"0", "9", ":", "0", "0">>), Some(<<"2", "3", ":", "5", "9">>), Some(<<"9", ":", "0", "0">>),
     Some(<<"0", "9", "0", "0">>), Some(<<"0", "9", ":", "0", "0", ":", "0", "0">>), Some(<<"0", "9", ":", "0", "0">> \o <<LF>>),
     Some(<<"a", "b", ":", "c", "d">>), Some(<<"9", "9", ":", "9", "9">>)}

TimezoneInputs == {None, Some(<<>>), Some(<<"U", "T", "C">>)}

MinuteInputs == {None} \cup {Some(n) : n \in (0 - 1)..MaxMinutes}

RootMinuteInputs == {None, Some(0 - 30), Some(0), Some(15), Some(45)}

\* uuid.uuid4().hex[:8]
ShortUuids == {<<"0", "a", "1", "b", "2", "c", "3", "d">>, <<"f", "f", "f", "f", "f", "f", "f", "f">>}

\* datetime.now(timezone.utc).strftime("%Y%m%dT%H%M%SZ")
Clock == {<<"2", "0", "2", "4", "0", "6", "0", "1", "T", "1", "2", "0", "0", "0", "0", "Z">>, <<"2", "0", "2", "6", "1", "1", "0", "2", "T", "1", "8", "4", "1", "2", "1", "Z">>}

InitEvent ==
    /\ \/ \E d \in DateInputs, t \in {None, Some(<<"0", "9", ":", "0", "0">>)}, s \in {None, Some(<<"U", "T", "C">>)} :
            /\ event = [BaseEvent EXCEPT !.date = Some(d), !.time = t, !.status = s]
            /\ data = [BaseData(<<event>>) EXCEPT !.timezone = Some(<<"E", "u", "r", "o", "p", "e", "/", "M", "a", "d", "r", "i", "d">>)]
       \/ \E d \in {None, Some(<<>>), Some(<<"2", "0", "2", "4", "-", "0", "3", "-", "1", "0">>), Some(<<"2", "0", "2", "3", "-", "0", "2", "-", "3", "0">>)},
             s \in {None, Some(<<>>), Some(<<"A", ";", "b", ",", "c">> \o <<LF, BACKSLASH>>)},
             t \in TimeInputs, z \in TimezoneInputs,
             rz \in {None, Some(<<"E", "u", "r", "o", "p", "e", "/", "M", "a", "d", "r", "i", "d">>)} :
            /\ event = [BaseEvent EXCEPT !.date = d, !.summary = s, !.time = t,
                                         !.timezone = z]
            /\ data = [BaseData(<<event>>) EXCEPT !.timezone = rz]
       \/ \E t \in {None, Some(<<"0", "9", ":", "0", "0">>)},
             de \in {None, Some(<<>>), Some(<<"x", ";", "y">>)},
             lo \in {None, Some(<<"R", "o", "o", "m", ",", " ", "1">>)},
             u \in {None, Some(<<>>), Some(<<"h", "t", "t", "p", ":", "/", "/", "x">>)},
             c \in {None, Some(<<>>), Some(<<<<"w", "o", "r", "k">>, <<"a", ",", "b">>>>)},
             st \in {None, Some(<<>>), Some(<<"C", "O", "N", "F", "I", "R", "M", "E", "D">>), Some(<<"M", "A", "Y", "B", "E">>)},
             tr \in {None, Some(<<"O", "P", "A", "Q", "U", "E">>), Some(<<"B", "U", "S", "Y">>)},
             rr \in {None, Some(<<"F", "R", "E", "Q", "=", "D", "A", "I", "L", "Y">>)},
             re \in {None, Some(15)} :
            /\ event = [BaseEvent EXCEPT !.time = t, !.timezone = Some(<<"U", "T", "C">>),
                            !.description = de, !.location = lo, !.url = u,
                            !.categories = c, !.status = st, !.transp = tr,
                            !.rrule = rr, !.reminder_minutes = re]
            /\ data = BaseData(<<event>>)
       \/ \E t \in {None, Some(<<"0", "9", ":", "0", "0">>)}, re \in MinuteInputs,
             rre \in RootMinuteInputs :
            /\ event = [BaseEvent EXCEPT !.time = t, !.timezone = Some(<<"U", "T", "C">>),
                                         !.reminder_minutes = re]
            /\ data = [BaseData(<<event>>) EXCEPT !.reminder_minutes = rre]
       \/ \E t \in {None, Some(<<"0", "9", ":", "0", "0">>)}, du \in MinuteInputs,
             rdu \in RootMinuteInputs :
            /\ event = [BaseEvent EXCEPT !.time = t, !.timezone = Some(<<"U", "T", "C">>),
                                         !.duration_minutes = du]
            /\ data = [BaseData(<<event>>) EXCEPT !.duration_minutes = rdu]
    /\ defaults = MakeDefaults(data)
    /\ vevent = NotCalled
    /\ line = <<>> /\ folded = Pending
    /\ text = <<>> /\ escaped = Pending
    /\ pc = "idle" /\ idx = 0 /\ lines = <<>> /\ result = NotCalled

BuildVevent ==
    /\ vevent = NotCalled
    /\ \E short_uuid \in ShortUuids, dtstamp \in Clock, pad_year \in BOOLEAN :
          vevent' = build_vevent(event, defaults, short_uuid, dtstamp, pad_year)
    /\ UNCHANGED <<line, folded, text, escaped, event, defaults,
                   data, pc, idx, lines, result>>

NextEvent == BuildVevent

SpecEvent == InitEvent /\ [][NextEvent]_vars

-----------------------------------------------------------------------------
(* Properties of build_vevent *)

Called == vevent.exc # "pending"
Built == vevent.exc = "none"

HasLine(l) == \E i \in 1..Len(vevent.out) : vevent.out[i] = l

HasPrefix(p) == \E i \in 1..Len(vevent.out) : StartsWith(vevent.out[i], p)

\* Exactly two digits, a colon and two digits.
IsHHMM(s) ==
    /\ Len(s) = 5
    /\ \A i \in {1, 2, 4, 5} : s[i] \in Digits
    /\ s[3] = ":"

\* The record passes every check that is not about its date or time.
OtherFieldsValid ==
    /\ Truthy(event.summary)
    /\ event.status # None => event.status[1] \in StatusValues
    /\ event.transp # None => event.transp[1] \in TranspValues

\* C6: a record whose time is present, the empty string included, and is not
\* exactly two digits, a colon and two digits, fails; so a timed event is
\* built only from a time of that form and an all-day event only from a
\* record without time.
TimeValidationAsClaimed ==
    /\ (Called /\ event.time # None /\ ~IsHHMM(event.time[1])) => ~Built
    /\ (Built /\ HasPrefix(<<"D", "T", "S", "T", "A", "R", "T", ";", "T", "Z", "I", "D", "=">>))
          => (event.time # None /\ IsHHMM(event.time[1]))
    /\ (Built /\ HasPrefix(<<"D", "T", "S", "T", "A", "R", "T", ";", "V", "A", "L", "U", "E", "=", "D", "A", "T", "E", ":">>)) => event.time = None

\* What does hold of the time check: a non-empty time that does not match the
\* pattern fails, and an all-day event is built only without a time.
TimeValidationNonEmpty ==
    /\ (Called /\ Truthy(event.time) /\ ~MatchesTime(event.time[1])) => ~Built
    /\ (Built /\ HasPrefix(<<"D", "T", "S", "T", "A", "R", "T", ";", "V", "A", "L", "U", "E", "=", "D", "A", "T", "E", ":">>)) => event.time = None

\* The days of the proleptic Gregorian calendar before the year y, before
\* the month m of y, and up to the date itself.
DaysBeforeYear(y) ==
    365 * (y - 1) + ((y - 1) \div 4) - ((y - 1) \div 100) + ((y - 1) \div 400)

DaysBeforeMonth(y, m) ==
    <<0, 31, 59, 90, 120, 151, 181, 212, 243, 273, 304, 334>>[m]
        + (IF m > 2 /\ IsLeap(y) THEN 1 ELSE 0)

Ordinal(y, m, d) == DaysBeforeYear(y) + DaysBeforeMonth(y, m) + d

MonthLength(y, m) ==
    <<31, 28, 31, 30, 31, 30, 31, 31, 30, 31, 30, 31>>[m]
        + (IF m = 2 /\ IsLeap(y) THEN 1 ELSE 0)

IsCalendarDate(y, m, d) ==
    /\ y \in 1..MaxYear /\ m \in 1..12
    /\ d >= 1 /\ d <= MonthLength(y, m)

\* The calendar date one day after y-m-d, as YYYYMMDD.
NextCalendarDay(y, m, d) ==
    LET next == CHOOSE t \in {y, y + 1} \X (1..12) \X (1..31) :
                    /\ t[3] <= MonthLength(t[1], t[2])
                    /\ Ordinal(t[1], t[2], t[3]) = Ordinal(y, m, d) + 1
    IN  Padded(next[1], 4) \o Padded(next[2], 2) \o Padded(next[3], 2)

EventYear == Num(event.date[1], 1, 4)
EventMonth == Num(event.date[1], 6, 7)
EventDay == Num(event.date[1], 9, 10)

\* C7: every all-day record whose date passes the pattern check is built
\* without an exception, with DTSTART the date stripped of its hyphens and
\* DTEND that date plus one calendar day.
AllDayEndAsClaimed ==
    (/\ Called /\ event.time = None /\ OtherFieldsValid
     /\ Truthy(event.date) /\ MatchesDate(event.date[1]))
    => /\ Built
       /\ HasLine(<<"D", "T", "S", "T", "A", "R", "T", ";", "V", "A", "L", "U", "E", "=", "D", "A", "T", "E", ":">>
                  \o SelectSeq(event.date[1], LAMBDA c : c # "-"))
       /\ IsCalendarDate(EventYear, EventMonth, EventDay)
            => HasLine(<<"D", "T", "E", "N", "D", ";", "V", "A", "L", "U", "E", "=", "D", "A", "T", "E", ":">>
                       \o NextCalendarDay(EventYear, EventMonth, EventDay))

\* What does hold of the all-day end date: for a calendar date of the years
\* 1000 to 9999 other than 9999-12-31, written with ten characters, the event
\* is built with DTEND the next calendar day.
AllDayEndOfCalendarDates ==
    (/\ Called /\ event.time = None /\ OtherFieldsValid
     /\ Truthy(event.date) /\ MatchesDate(event.date[1])
     /\ Len(event.date[1]) = 10
     /\ IsCalendarDate(EventYear, EventMonth, EventDay)
     /\ EventYear >= 1000
     /\ <<EventYear, EventMonth, EventDay>> # <<MaxYear, 12, 31>>)
    => /\ Built
       /\ HasLine(<<"D", "T", "S", "T", "A", "R", "T", ";", "V", "A", "L", "U", "E", "=", "D", "A", "T", "E", ":">>
                  \o SelectSeq(event.date[1], LAMBDA c : c # "-"))
       /\ HasLine(<<"D", "T", "E", "N", "D", ";", "V", "A", "L", "U", "E", "=", "D", "A", "T", "E", ":">>
                  \o NextCalendarDay(EventYear, EventMonth, EventDay))

\* A duration token after its PT: digits and H, digits and M, or both in that
\* order.  hasH, hours, hasM, mins are what it holds.
TokenHasH(s) == \E i \in 1..Len(s) : s[i] = "H"
TokenHasM(s) == \E i \in 1..Len(s) : s[i] = "M"
TokenHPos(s) == CHOOSE i \in 1..Len(s) : s[i] = "H"
AllDigits(s, i, j) == i <= j /\ \A k \in i..j : s[k] \in Digits
TokenWellFormed(s) ==
    /\ TokenHasH(s) \/ TokenHasM(s)
    /\ \A i \in 1..Len(s) : s[i] \in Digits \cup {"H", "M"}
    /\ Cardinality({i \in 1..Len(s) : s[i] \in {"H", "M"}})
          = (IF TokenHasH(s) THEN 1 ELSE 0) + (IF TokenHasM(s) THEN 1 ELSE 0)
    /\ TokenHasH(s) => AllDigits(s, 1, TokenHPos(s) - 1)
    /\ TokenHasM(s) => /\ s[Len(s)] = "M"
                       /\ AllDigits(s, IF TokenHasH(s) THEN TokenHPos(s) + 1 ELSE 1,
                                    Len(s) - 1)
    /\ ~TokenHasM(s) => TokenHPos(s) = Len(s)
TokenHours(s) == IF TokenHasH(s) THEN Num(s, 1, TokenHPos(s) - 1) ELSE 0
TokenMins(s) ==
    IF TokenHasM(s)
    THEN Num(s, IF TokenHasH(s) THEN TokenHPos(s) + 1 ELSE 1, Len(s) - 1)
    ELSE 0

\* The line is prefix, then the duration token of minutes: an H segment only
\* when minutes div 60 > 0, an M segment only when minutes mod 60 > 0, and
\* hours * 60 + minutes equal to minutes.
IsDurationLine(l, prefix, minutes) ==
    /\ StartsWith(l, prefix)
    /\ LET s == SubSeq(l, Len(prefix) + 1, Len(l))
       IN  /\ TokenWellFormed(s)
           /\ TokenHasH(s) <=> (minutes \div 60 > 0)
           /\ TokenHasM(s) <=> (minutes % 60 > 0)
           /\ TokenHours(s) = minutes \div 60
           /\ TokenMins(s) = minutes % 60
           /\ TokenHours(s) * 60 + TokenMins(s) = minutes

\* The record's own value when it sets one, else the root's, else fallback.
Effective(own, root, fallback) ==
    IF own # None THEN own[1] ELSE IF root # None THEN root[1] ELSE fallback

\* C8: the event has an alarm block exactly when the effective reminder (the
\* record's own when set, else the root default, else 0) is greater than
\* zero; the block is BEGIN:VALARM, TRIGGER, ACTION:DISPLAY,
\* DESCRIPTION:Reminder, END:VALARM, and the TRIGGER value is a minus sign and
\* the duration token of the reminder (15 -> -PT15M, 90 -> -PT1H30M,
\* 120 -> -PT2H).
AlarmEmission ==
    Built =>
        LET ls == vevent.out
            eff == Effective(event.reminder_minutes, data.reminder_minutes, 0)
            starts == {i \in 1..Len(ls) : ls[i] = <<"B", "E", "G", "I", "N", ":", "V", "A", "L", "A", "R", "M">>}
        IN  /\ eff > 0 <=> starts # {}
            /\ eff > 0 <=> HasPrefix(<<"T", "R", "I", "G", "G", "E", "R", ":">>)
            /\ eff > 0 <=> HasLine(<<"E", "N", "D", ":", "V", "A", "L", "A", "R", "M">>)
            /\ eff > 0 =>
                 /\ Cardinality(starts) = 1
                 /\ LET i == CHOOSE k \in starts : TRUE
                    IN  /\ i + 4 <= Len(ls)
                        /\ IsDurationLine(ls[i + 1], <<"T", "R", "I", "G", "G", "E", "R", ":", "-", "P", "T">>, eff)
                        /\ ls[i + 2] = <<"A", "C", "T", "I", "O", "N", ":", "D", "I", "S", "P", "L", "A", "Y">>
                        /\ ls[i + 3] = <<"D", "E", "S", "C", "R", "I", "P", "T", "I", "O", "N", ":", "R", "e", "m", "i", "n", "d", "e", "r">>
                        /\ ls[i + 4] = <<"E", "N", "D", ":", "V", "A", "L", "A", "R", "M">>
                        /\ eff = 15 => ls[i + 1] = <<"T", "R", "I", "G", "G", "E", "R", ":", "-", "P", "T", "1", "5", "M">>
                        /\ eff = 90 => ls[i + 1] = <<"T", "R", "I", "G", "G", "E", "R", ":", "-", "P", "T", "1", "H", "3", "0", "M">>
                        /\ eff = 120 => ls[i + 1] = <<"T", "R", "I", "G", "G", "E", "R", ":", "-", "P", "T", "2", "H">>

\* C8 witness: the record's own reminder of 90 wins over a root default of 15
\* and the alarm triggers at -PT1H30M.
AlarmEmissionWitness ==
    /\ Built
    /\ event.reminder_minutes = Some(90)
    /\ data.reminder_minutes = Some(15)
    /\ HasLine(<<"T", "R", "I", "G", "G", "E", "R", ":", "-", "P", "T", "1", "H", "3", "0", "M">>)

\* A record's own reminder of 0 disables the alarm under a positive root
\* default.
AlarmDisabledWitness ==
    /\ Built
    /\ event.reminder_minutes = Some(0)
    /\ data.reminder_minutes = Some(15)
    /\ ~HasLine(<<"B", "E", "G", "I", "N", ":", "V", "A", "L", "A", "R", "M">>)

\* The place of the i-th line of ls in the fixed order of a VEVENT; 0 for a
\* line that is none of its properties.  DESCRIPTION right after
\* ACTION:DISPLAY is the alarm's own.
Rank(ls, i) ==
    LET l == ls[i]
    IN  IF l = <<"B", "E", "G", "I", "N", ":", "V", "E", "V", "E", "N", "T">> THEN 1
        ELSE IF StartsWith(l, <<"U", "I", "D", ":">>) THEN 2
        ELSE IF StartsWith(l, <<"D", "T", "S", "T", "A", "M", "P", ":">>) THEN 3
        ELSE IF StartsWith(l, <<"D", "T", "S", "T", "A", "R", "T">>) THEN 4
        ELSE IF StartsWith(l, <<"D", "T", "E", "N", "D">>) \/ StartsWith(l, <<"D", "U", "R", "A", "T", "I", "O", "N", ":">>) THEN 5
        ELSE IF StartsWith(l, <<"S", "U", "M", "M", "A", "R", "Y", ":">>) THEN 6
        ELSE IF StartsWith(l, <<"D", "E", "S", "C", "R", "I", "P", "T", "I", "O", "N", ":">>)
             THEN (IF i > 1 /\ ls[i - 1] = <<"A", "C", "T", "I", "O", "N", ":", "D", "I", "S", "P", "L", "A", "Y">> THEN 17 ELSE 7)
        ELSE IF StartsWith(l, <<"L", "O", "C", "A", "T", "I", "O", "N", ":">>) THEN 8
        ELSE IF StartsWith(l, <<"U", "R", "L", ":">>) THEN 9
        ELSE IF StartsWith(l, <<"C", "A", "T", "E", "G", "O", "R", "I", "E", "S", ":">>) THEN 10
        ELSE IF StartsWith(l, <<"S", "T", "A", "T", "U", "S", ":">>) THEN 11
        ELSE IF StartsWith(l, <<"T", "R", "A", "N", "S", "P", ":">>) THEN 12
        ELSE IF StartsWith(l, <<"R", "R", "U", "L", "E", ":">>) THEN 13
        ELSE IF l = <<"B", "E", "G", "I", "N", ":", "V", "A", "L", "A", "R", "M">> THEN 14
        ELSE IF StartsWith(l, <<"T", "R", "I", "G", "G", "E", "R", ":">>) THEN 15
        ELSE IF l = <<"A", "C", "T", "I", "O", "N", ":", "D", "I", "S", "P", "L", "A", "Y">> THEN 16
        ELSE IF l = <<"E", "N", "D", ":", "V", "A", "L", "A", "R", "M">> THEN 18
        ELSE IF l = <<"E", "N", "D", ":", "V", "E", "V", "E", "N", "T">> THEN 19
        ELSE 0

HasRank(ls, r) == \E i \in 1..Len(ls) : Rank(ls, i) = r

\* Every line is a property of the fixed order, the lines come in that order
\* with none twice, the required ones are there, DTEND goes with an all-day
\* event and DURATION with a timed one, and the alarm block is whole or absent.
InFixedOrder(ls) ==
    /\ \A i \in 1..Len(ls) : Rank(ls, i) >= 1
    /\ \A i \in 1..(Len(ls) - 1) : Rank(ls, i) < Rank(ls, i + 1)
    /\ \A r \in {1, 2, 3, 4, 6, 19} : HasRank(ls, r)
    /\ \A i \in 1..Len(ls) :
          /\ StartsWith(ls[i], <<"D", "T", "E", "N", "D">>) => event.time = None
          /\ StartsWith(ls[i], <<"D", "U", "R", "A", "T", "I", "O", "N", ":">>) => event.time # None
    /\ \A r \in {15, 16, 17, 18} : HasRank(ls, r) <=> HasRank(ls, 14)

\* The field of the record behind each optional property, by rank.
OptionalField(r) ==
    CASE r = 7 -> event.description
      [] r = 8 -> event.location
      [] r = 9 -> event.url
      [] r = 10 -> event.categories
      [] r = 11 -> event.status
      [] r = 12 -> event.transp
      [] r = 13 -> event.rrule

\* C9 as stated: the lines of a built VEVENT are in the fixed order, each at
\* most once, SUMMARY always, and each optional property exactly when its
\* field is present in the record.
PropertyOrderAsClaimed ==
    Built =>
        /\ InFixedOrder(vevent.out)
        /\ \A r \in 7..13 : HasRank(vevent.out, r) <=> OptionalField(r) # None

\* C9 amended: as stated, but each optional property appears exactly when its
\* field is present and not empty.
PropertyOrder ==
    Built =>
        /\ InFixedOrder(vevent.out)
        /\ \A r \in 7..13 : HasRank(vevent.out, r) <=> Truthy(OptionalField(r))

\* C9 witness: a timed event with every optional field and a reminder is built
\* into all nineteen lines.
PropertyOrderWitness ==
    /\ Built
    /\ event.time # None
    /\ \A r \in 7..13 : Truthy(OptionalField(r))
    /\ Len(vevent.out) = 19
    /\ \A r \in (1..19) \ {5} : HasRank(vevent.out, r)
    /\ HasPrefix(<<"D", "U", "R", "A", "T", "I", "O", "N", ":">>)

\* C10: an all-day VEVENT has no DURATION line and no TZID parameter, a timed
\* one no DTEND line; a timed one has a DURATION line exactly when the
\* effective duration (the record's own non-negative value when set, else the
\* root default, else 60) is greater than zero, and its value is PT, an H
\* segment only when duration div 60 > 0 and an M segment only when
\* duration mod 60 > 0, with hours * 60 + minutes the duration.
TemporalShapeAsClaimed ==
    (Built /\ (event.duration_minutes = None \/ event.duration_minutes[1] >= 0)) =>
        LET ls == vevent.out
            eff == Effective(event.duration_minutes, data.duration_minutes, 60)
            durs == {i \in 1..Len(ls) : StartsWith(ls[i], <<"D", "U", "R", "A", "T", "I", "O", "N", ":">>)}
        IN  /\ event.time = None =>
                 /\ durs = {}
                 /\ ~HasPrefix(<<"D", "T", "S", "T", "A", "R", "T", ";", "T", "Z", "I", "D", "=">>)
            /\ event.time # None =>
                 /\ ~HasPrefix(<<"D", "T", "E", "N", "D">>)
                 /\ eff > 0 <=> durs # {}
                 /\ \A i \in durs : IsDurationLine(ls[i], <<"D", "U", "R", "A", "T", "I", "O", "N", ":", "P", "T">>, eff)

\* What does hold of the temporal shapes: as C10 states, for an effective
\* duration that is not negative, whether the record's own or the root's.
TemporalShape ==
    Built =>
        LET ls == vevent.out
            eff == Effective(event.duration_minutes, data.duration_minutes, 60)
            durs == {i \in 1..Len(ls) : StartsWith(ls[i], <<"D", "U", "R", "A", "T", "I", "O", "N", ":">>)}
        IN  /\ event.time = None =>
                 /\ durs = {}
                 /\ ~HasPrefix(<<"D", "T", "S", "T", "A", "R", "T", ";", "T", "Z", "I", "D", "=">>)
                 /\ HasPrefix(<<"D", "T", "S", "T", "A", "R", "T", ";", "V", "A", "L", "U", "E", "=", "D", "A", "T", "E", ":">>)
                 /\ HasPrefix(<<"D", "T", "E", "N", "D", ";", "V", "A", "L", "U", "E", "=", "D", "A", "T", "E", ":">>)
            /\ event.time # None =>
                 /\ ~HasPrefix(<<"D", "T", "E", "N", "D">>)
                 /\ HasPrefix(<<"D", "T", "S", "T", "A", "R", "T", ";", "T", "Z", "I", "D", "=">>)
            /\ (event.time # None /\ eff >= 0) =>
                 /\ eff > 0 <=> durs # {}
                 /\ \A i \in durs : IsDurationLine(ls[i], <<"D", "U", "R", "A", "T", "I", "O", "N", ":", "P", "T">>, eff)
                 /\ Cardinality(durs) <= 1

\* A timed event whose own duration of 90 wins over the root
\* default of 45 carries DURATION:PT1H30M.
TemporalShapeWitness ==
    /\ Built
    /\ event.time # None
    /\ event.duration_minutes = Some(90)
    /\ data.duration_minutes = Some(45)
    /\ HasLine(<<"D", "U", "R", "A", "T", "I", "O", "N", ":", "P", "T", "1", "H", "3", "0", "M">>)

-----------------------------------------------------------------------------
(* Spec: generate_ics on bounded documents, one step per loop iteration *)

MaxEvents == 2

\* Lines 183-189: the envelope header
Header ==
    <<<<"B", "E", "G", "I", "N", ":", "V", "C", "A", "L", "E", "N", "D", "A", "R">>, <<"V", "E", "R", "S", "I", "O", "N", ":", "2", ".", "0">>, <<"P", "R", "O", "D", "I", "D", ":", "-", "/", "/", "C", "l", "a", "u", "d", "e", "/", "/", "E", "N">>,
      <<"C", "A", "L", "S", "C", "A", "L", "E", ":", "G", "R", "E", "G", "O", "R", "I", "A", "N">>, <<"M", "E", "T", "H", "O", "D", ":", "P", "U", "B", "L", "I", "S", "H">>>>

Footer == <<"E", "N", "D", ":", "V", "C", "A", "L", "E", "N", "D", "A", "R">>

EmptyEvents == Raise("ValueError", "JSON must contain a non-empty 'events' array")

\* Lines 194-197: close the envelope, join with CRLF and fold.
Document(ls) == fold_content(Join(<<CR, LF>>, Append(ls, Footer)))

\* generate_ics(data) as a function of the random and clock values its calls
\* of build_vevent draw: uuids[i] and stamps[i] for the i-th record.
generate_ics(root, uuids, stamps, pad_year) ==
    LET events == root.events
        dflt == MakeDefaults(root)
        built == [i \in 1..Len(events) |->
                     build_vevent(events[i], dflt, uuids[i], stamps[i], pad_year)]
        failed == {i \in 1..Len(events) : built[i].exc # "none"}
    IN  IF events = <<>> THEN EmptyEvents
        ELSE IF failed # {}
        THEN built[CHOOSE i \in failed : \A j \in failed : i <= j]
        ELSE Return(Document(Header \o [i \in 1..Len(events) |->
                                           Join(<<CR, LF>>, built[i].out)]))

InjectedUrl == <<"h", "t", "t", "p", ":", "/", "/", "a">> \o <<CR, LF>> \o <<"E", "N", "D", ":", "V", "E", "V", "E", "N", "T">> \o <<CR, LF>> \o <<"B", "E", "G", "I", "N", ":", "V", "E", "V", "E", "N", "T">>

LongSummary == <<"Q", "u", "a", "r", "t", "e", "r", "l", "y", " ", "p", "l", "a", "n", "n", "i", "n", "g", " ", "c", "a", "f">> \o <<"U+00E9">> \o <<" ", "w", "i", "t", "h", " ", "t", "h", "e", " ", "w", "h", "o", "l", "e", " ", "t", "e", "a", "m", ";", " ", "b", "r", "i", "n", "g", " ", "n", "o", "t", "e", "s", ",", " ", "l", "a", "p", "t", "o", "p", "s", ",", " ", "a", "n", "d", " ", "t", "h", "e", " ", "b", "u", "d", "g", "e", "t">>

\* Records: all-day, timed, timed relying on the root timezone, long enough
\* to fold, with line breaks in the url, and one for each way to fail.
EventInputs ==
    {BaseEvent,
     [BaseEvent EXCEPT !.summary = Some(<<"S", "y", "n", "c">>), !.date = Some(<<"2", "0", "2", "4", "-", "0", "6", "-", "0", "1">>),
                       !.time = Some(<<"0", "9", ":", "0", "0">>), !.timezone = Some(<<"U", "T", "C">>),
                       !.reminder_minutes = Some(15), !.duration_minutes = Some(30)],
     [BaseEvent EXCEPT !.summary = Some(<<"C", "a", "l", "l">>), !.time = Some(<<"1", "6", ":", "3", "0">>)],
     [BaseEvent EXCEPT !.summary = Some(LongSummary)],
     [BaseEvent EXCEPT !.summary = Some(<<"L", "i", "n", "k">>), !.url = Some(InjectedUrl)],
     [BaseEvent EXCEPT !.summary = None],
     [BaseEvent EXCEPT !.summary = Some(<<"S", "l", "i", "p">>), !.date = Some(<<"2", "0", "2", "4", "-", "3", "-", "1", "0">>)],
     [BaseEvent EXCEPT !.summary = Some(<<"B", "l", "a", "n", "k">>), !.time = Some(<<>>),
                       !.timezone = Some(<<"U", "T", "C">>)],
     [BaseEvent EXCEPT !.summary = Some(<<"L", "a", "s", "t">>), !.date = Some(<<"9", "9", "9", "9", "-", "1", "2", "-", "3", "1">>)],
     [BaseEvent EXCEPT !.summary = Some(<<"M", "a", "y", "b", "e">>), !.status = Some(<<"M", "A", "Y", "B", "E">>)]}

RECURSIVE Documents(_)
Documents(n) ==
    IF n = 0 THEN {<<>>}
    ELSE LET shorter == Documents(n - 1)
         IN  shorter \cup {Append(evs, e) : evs \in {d \in shorter : Len(d) = n - 1},
                                           e \in EventInputs}

Init ==
    /\ \E evs \in Documents(MaxEvents), rz \in {None, Some(<<"E", "u", "r", "o", "p", "e", "/", "M", "a", "d", "r", "i", "d">>)} :
          data = [BaseData(evs) EXCEPT !.timezone = rz]
    /\ pc = "start" /\ idx = 0 /\ lines = <<>> /\ result = NotCalled
    /\ defaults = <<>> /\ event = <<>> /\ vevent = NotCalled
    /\ line = <<>> /\ folded = Pending
    /\ text = <<>> /\ escaped = Pending

\* Lines 173-175: no events, or an empty list
RejectEmpty ==
    /\ pc = "start"
    /\ data.events = <<>>
    /\ result' = EmptyEvents
    /\ pc' = "raised"
    /\ UNCHANGED <<line, folded, text, escaped, event, defaults, vevent,
                   data, idx, lines>>

\* Lines 177-189: the defaults and the header
Start ==
    /\ pc = "start"
    /\ data.events # <<>>
    /\ defaults' = MakeDefaults(data)
    /\ lines' = Header
    /\ idx' = 1
    /\ pc' = "loop"
    /\ UNCHANGED <<line, folded, text, escaped, event, vevent, data, result>>

\* Lines 191-192: one iteration, build_vevent returning
AppendVevent ==
    /\ pc = "loop"
    /\ idx <= Len(data.events)
    /\ \E short_uuid \in ShortUuids, dtstamp \in Clock, pad_year \in BOOLEAN :
          /\ vevent' = build_vevent(data.events[idx], defaults, short_uuid,
                                    dtstamp, pad_year)
          /\ vevent'.exc = "none"
    /\ event' = data.events[idx]
    /\ lines' = Append(lines, Join(<<CR, LF>>, vevent'.out))
    /\ idx' = idx + 1
    /\ UNCHANGED <<line, folded, text, escaped, defaults, data, pc, result>>

\* Lines 191-192: one iteration, build_vevent raising; nothing catches it
\* in generate_ics.
VeventRaises ==
    /\ pc = "loop"
    /\ idx <= Len(data.events)
    /\ \E short_uuid \in ShortUuids, dtstamp \in Clock, pad_year \in BOOLEAN :
          /\ vevent' = build_vevent(data.events[idx], defaults, short_uuid,
                                    dtstamp, pad_year)
          /\ vevent'.exc # "none"
    /\ event' = data.events[idx]
    /\ result' = vevent'
    /\ pc' = "raised"
    /\ UNCHANGED <<line, folded, text, escaped, defaults, data, idx, lines>>

\* Lines 194-197: after the last record
Finish ==
    /\ pc = "loop"
    /\ idx > Len(data.events)
    /\ result' = Return(Document(lines))
    /\ pc' = "done"
    /\ UNCHANGED <<line, folded, text, escaped, event, defaults, vevent,
                   data, idx, lines>>

Next == RejectEmpty \/ Start \/ AppendVevent \/ VeventRaises \/ Finish

Spec == Init /\ [][Next]_vars

-----------------------------------------------------------------------------
(* Properties of generate_ics *)

\* Four digits, a hyphen, two digits, a hyphen and two digits.
IsYMD(s) ==
    /\ Len(s) = 10
    /\ \A i \in {1, 2, 3, 4, 6, 7, 9, 10} : s[i] \in Digits
    /\ s[5] = "-" /\ s[8] = "-"

\* The rules for one record: date and summary are required, the date has the
\* pattern, a time has its pattern and a timezone of the record or of the
\* root, status and transp are of their enumerations.
ValidRecord(ev, root) ==
    /\ ev.date # None /\ ev.summary # None
    /\ IsYMD(ev.date[1])
    /\ ev.time # None =>
          /\ IsHHMM(ev.time[1])
          /\ ev.timezone # None \/ root.timezone # None
    /\ ev.status # None => ev.status[1] \in StatusValues
    /\ ev.transp # None => ev.transp[1] \in TranspValues

InvalidRecords == {i \in 1..Len(data.events) : ~ValidRecord(data.events[i], data)}

Returned == pc = "done"
Raised == pc = "raised"

\* C4: generate_ics returns a document only when the events are present and
\* not empty and every record is valid; otherwise it raises a ValueError and
\* returns no text, and the error is that of the first invalid record in
\* input order, no later record being processed.
FailFastAsClaimed ==
    /\ Returned => (data.events # <<>> /\ InvalidRecords = {})
    /\ Raised =>
          /\ result.exc = "ValueError"
          /\ result.out = <<>>
          /\ \/ data.events = <<>>
             \/ /\ idx \in InvalidRecords
                /\ \A i \in InvalidRecords : idx <= i
                /\ result = vevent
    /\ ~Returned => result.out = <<>>

\* What does hold of the loop: it stops at the first record for which
\* build_vevent raises, with that exception and no text, the records before it
\* all built; and it returns only when build_vevent returned for every record.
FailFast ==
    /\ Returned =>
          /\ data.events # <<>>
          /\ idx = Len(data.events) + 1
          /\ Len(lines) = Len(Header) + Len(data.events)
          /\ result.exc = "none"
    /\ Raised =>
          /\ result.out = <<>>
          /\ \/ data.events = <<>> /\ result = EmptyEvents
             \/ /\ idx \in 1..Len(data.events)
                /\ Len(lines) = Len(Header) + idx - 1
                /\ result = vevent
                /\ event = data.events[idx]
                /\ result.exc \in {"ValueError", "OverflowError"}
    /\ ~Returned => result.out = <<>>

\* The lines a reader of the document sees after unfolding.
DocumentLines == Split(Unfold(result.out), <<CR, LF>>)

Positions(ls, l) == SelectSeq([i \in 1..Len(ls) |-> i], LAMBDA i : ls[i] = l)

\* C5: a document of n >= 1 valid records begins with the envelope header,
\* ends with END:VCALENDAR and holds exactly n BEGIN:VEVENT/END:VEVENT
\* blocks, the i-th with the summary of the i-th record, whatever text url,
\* rrule, categories and timezone carry.
EnvelopeAsClaimed ==
    (Returned /\ InvalidRecords = {}) =>
        LET ls == DocumentLines
            n == Len(data.events)
            begins == Positions(ls, <<"B", "E", "G", "I", "N", ":", "V", "E", "V", "E", "N", "T">>)
            ends == Positions(ls, <<"E", "N", "D", ":", "V", "E", "V", "E", "N", "T">>)
        IN  /\ Len(ls) > Len(Header)
            /\ SubSeq(ls, 1, Len(Header)) = Header
            /\ ls[Len(ls)] = Footer
            /\ Len(begins) = n
            /\ Len(ends) = n
            /\ \A i \in 1..n :
                  /\ begins[i] < ends[i]
                  /\ i < n => ends[i] < begins[i + 1]
                  /\ \E j \in begins[i]..ends[i] :
                        ls[j] = <<"S", "U", "M", "M", "A", "R", "Y", ":">> \o escape_text(data.events[i].summary[1])

\* What does hold of the envelope: the header first, END:VCALENDAR last, and
\* between them the records' blocks in input order, each opened by
\* BEGIN:VEVENT and closed by END:VEVENT.
Envelope ==
    Returned =>
        LET ls == DocumentLines
        IN  /\ Len(ls) > Len(Header)
            /\ SubSeq(ls, 1, Len(Header)) = Header
            /\ ls[Len(ls)] = Footer
            /\ ls = Split(Join(<<CR, LF>>, Append(lines, Footer)), <<CR, LF>>)
            /\ \A i \in 1..Len(data.events) :
                  LET block == lines[Len(Header) + i]
                  IN  /\ StartsWith(block, <<"B", "E", "G", "I", "N", ":", "V", "E", "V", "E", "N", "T">> \o <<CR, LF>>)
                      /\ MatchAt(block, Len(block) - 11, <<CR, LF>> \o <<"E", "N", "D", ":", "V", "E", "V", "E", "N", "T">>)
                      /\ Contains(block, <<CR, LF>> \o <<"S", "U", "M", "M", "A", "R", "Y", ":">>
                                         \o escape_text(data.events[i].summary[1])
                                         \o <<CR, LF>>)

=============================================================================
